---- MODULE Spec2Model ----
(***************************************************************************)
(* Model of door_detector.py: the visitor classifier (classify_visitor),   *)
(* the audio helpers (play_sound, play_track) and the polling loop with    *)
(* its event/audio controller.  The detection service, the face service    *)
(* and the mixer are external; a frame is represented by what the code     *)
(* reads from them: the list of detected labels and the list of face       *)
(* encodings found in the frame.                                           *)
(***************************************************************************)
EXTENDS Integers, Sequences, FiniteSets, TLC

VARIABLES pc, current_track, music, ops, last_event, event_start_time,
          event_played, now, visitor, known_face_encodings, exit_code,
          ev, pre, mid, started, call, cap, friends_dir, printed, key, overlay,
          aft, ended

vars == <<pc, current_track, music, ops, last_event, event_start_time,
          event_played, now, visitor, known_face_encodings, exit_code,
          ev, pre, mid, started, call, cap, friends_dir, printed, key, overlay,
          aft, ended>>

\* pc is the position in the module body; now, visitor, current_track,
\* last_event, event_start_time, event_played and known_face_encodings are
\* the globals of the source; music is the mixer's music stream.
\* History: ops is the list of mixer calls made by the last step, ev names
\* the last step, pre and mid are the controller state before the last tick
\* and after its category-change block, started tells whether the one-shot
\* of the current event has been started ("no", "once", "again").
\* call holds the arguments and the result of a classify_visitor call
\* checked on its own (SpecClassify); the loop does not retain its frames.
\* cap is the state of the capture device, friends_dir the outcome of the
\* directory check, printed the last line printed, key the last result of
\* waitKey and overlay the label drawn on the last frame.
\* aft is the controller state of the last tick after its one-shot branch
\* (line 172); ended tells whether the stream played by the mixer ended
\* during the last tick, before get_busy() was asked at line 175.

(* ---------------------------- bounds ----------------------------------- *)
MaxTime == 2
MaxDet == 2
MaxFaces == 1
MaxGallery == 1
MaxBlinkTime == 31

(* ---------------------------- constants -------------------------------- *)
None == "None"

Tracks == {"background", "friend", "thief", "delivery"}

OneShots == {"friend", "thief", "delivery"}

Categories == {"friend", "delivery", "thief", "noperson"}

sound_files == [n \in Tracks |->
                 CASE n = "background" -> "toto_africa.mp3"
                   [] n = "friend"     -> "me_and_your_mama.mp3.mp3"
                   [] n = "thief"      -> "horror-tension-suspense-322304.mp3"
                   [] n = "delivery"   -> "dr_alban.mp3"]

\* delays that make every one-shot wait one time unit
delays_late == [c \in Categories |-> 1]

delays == [c \in Categories |-> 0]

DeliveryCues == {"handbag", "backpack", "helmet", "suit", "hat"}

Labels == {"person", "dog"} \cup DeliveryCues

\* face encodings, told apart by the person they belong to
Encodings == {1, 2}

Keys == {-1, 27, 97}

SeqsUpTo(S, n) == UNION {[1..k -> S] : k \in 0..n}

Range(f) == {f[i] : i \in DOMAIN f}

Frames == [detected : SeqsUpTo(Labels, MaxDet), encs : SeqsUpTo(Encodings, MaxFaces)]

Galleries == SeqsUpTo(Encodings, MaxGallery)

(* ---------------------------- mixer ------------------------------------ *)
\* pygame.mixer.music is one stream: the loaded file, whether it is
\* playing, and the loop count and start position of the last play().
NoMusic == [file |-> None, busy |-> FALSE, loops |-> 0, start |-> 0]

music_stop(s) ==
  [s EXCEPT !.music.busy = FALSE, !.ops = Append(@, <<"stop">>)]

music_load(s, file) ==
  [s EXCEPT !.music.file = file, !.music.busy = FALSE,
            !.ops = Append(@, <<"load", file>>)]

music_play(s, loop, start) ==
  [s EXCEPT !.music.busy = TRUE, !.music.loops = loop, !.music.start = start,
            !.ops = Append(@, <<"play", loop, start>>)]

get_busy(s) == s.music.busy

\* pygame.mixer.quit(): the mixer is uninitialised, no file stays loaded
mixer_quit(s) ==
  [s EXCEPT !.music.file = None, !.music.busy = FALSE,
            !.ops = Append(@, <<"quit">>)]

\* the mixer calls o contain a load of file
Loaded(o, file) == \E i \in DOMAIN o : o[i] = <<"load", file>>

(* ---------------------------- sound helpers ---------------------------- *)
play_sound(s, file, loop) ==
  IF file # "toto_africa.mp3"
    THEN music_play(music_load(s, file), loop, 27)
    ELSE music_play(music_load(s, file), loop, 0)

\* play_track that loads the next file without stopping first
play_track_nostop(s, name, loop) ==
  [play_sound(s, sound_files[name], loop) EXCEPT !.current_track = name]

play_track(s, name, loop) ==
  [play_sound(music_stop(s), sound_files[name], loop)
     EXCEPT !.current_track = name]

(* ---------------------------- classification --------------------------- *)
compare_faces(known, enc) == [i \in DOMAIN known |-> known[i] = enc]

\* classify_visitor that runs the face match before the person test
classify_visitor_facefirst(detected, encs, known) ==
  IF \E i \in DOMAIN encs : TRUE \in Range(compare_faces(known, encs[i]))
    THEN "friend"
  ELSE IF ~(\E i \in DOMAIN detected : detected[i] = "person")
    THEN "noperson"
  ELSE IF \E i \in DOMAIN detected : detected[i] \in DeliveryCues
    THEN "delivery"
  ELSE "thief"

\* classify_visitor that tests the delivery cues before the face match
classify_visitor_cuefirst(detected, encs, known) ==
  IF ~(\E i \in DOMAIN detected : detected[i] = "person")
    THEN "noperson"
  ELSE IF \E i \in DOMAIN detected : detected[i] \in DeliveryCues
    THEN "delivery"
  ELSE IF \E i \in DOMAIN encs : TRUE \in Range(compare_faces(known, encs[i]))
    THEN "friend"
  ELSE "thief"

\* classify_visitor that tests only the first detected label for a cue
classify_visitor_firstlabel(detected, encs, known) ==
  IF ~(\E i \in DOMAIN detected : detected[i] = "person")
    THEN "noperson"
  ELSE IF \E i \in DOMAIN encs : TRUE \in Range(compare_faces(known, encs[i]))
    THEN "friend"
  ELSE IF detected[1] \in DeliveryCues
    THEN "delivery"
  ELSE "thief"

\* classify_visitor that wants a face to match every gallery encoding
classify_visitor_allmatch(detected, encs, known) ==
  IF ~(\E i \in DOMAIN detected : detected[i] = "person")
    THEN "noperson"
  ELSE IF \E i \in DOMAIN encs : FALSE \notin Range(compare_faces(known, encs[i]))
    THEN "friend"
  ELSE IF \E i \in DOMAIN detected : detected[i] \in DeliveryCues
    THEN "delivery"
  ELSE "thief"

classify_visitor(detected, encs, known) ==
  IF ~(\E i \in DOMAIN detected : detected[i] = "person")
    THEN "noperson"
  ELSE IF \E i \in DOMAIN encs : TRUE \in Range(compare_faces(known, encs[i]))
    THEN "friend"
  ELSE IF \E i \in DOMAIN detected : detected[i] \in DeliveryCues
    THEN "delivery"
  ELSE "thief"

(* ---------------------------- controller ------------------------------- *)
\* lines 134-139: the categories that the frames of the camera can be
\* given, for each gallery (computed once, not once per state)
visitors_of ==
  [g \in Galleries |->
     {classify_visitor(frame.detected, frame.encs, g) : frame \in Frames}]

\* The controller's view of the program state, threaded through one tick.
Ctl == [current_track |-> current_track, music |-> music, ops |-> <<>>,
        last_event |-> last_event, event_start_time |-> event_start_time,
        event_played |-> event_played]

\* on_change that resets the event state but leaves playback running
on_change_nostop(s, v, t) ==
  IF v # s.last_event
    THEN [s EXCEPT !.last_event = v,
                   !.event_start_time = t,
                   !.event_played = FALSE]
    ELSE s

\* on_change that leaves event_played as it was
on_change_keepplayed(s, v, t) ==
  IF v # s.last_event
    THEN music_stop([s EXCEPT !.last_event = v,
                              !.event_start_time = t])
    ELSE s

on_change(s, v, t) ==
  IF v # s.last_event
    THEN music_stop([s EXCEPT !.last_event = v,
                              !.event_start_time = t,
                              !.event_played = FALSE])
    ELSE s

\* noperson_branch that only looks at the current track
noperson_branch_trackonly(s) ==
  IF s.current_track # "background"
    THEN play_track(s, "background", -1)
    ELSE s

\* noperson_branch that restarts background on every tick
noperson_branch_always(s) == play_track(s, "background", -1)

noperson_branch(s) ==
  IF s.current_track # "background" \/ ~get_busy(s)
    THEN play_track(s, "background", -1)
    ELSE s

\* oneshot_branch that ignores event_played
oneshot_branch_replay(s, v, t) ==
  IF (t - s.event_start_time) >= delays[v]
    THEN [play_track(s, v, 0) EXCEPT !.event_played = TRUE]
    ELSE s

oneshot_branch(s, v, t) ==
  IF ~s.event_played /\ (t - s.event_start_time) >= delays[v]
    THEN [play_track(s, v, 0) EXCEPT !.event_played = TRUE]
    ELSE s

\* resume_branch that starts background as a one-shot
resume_branch_once(s, t) ==
  IF s.event_played /\ ~get_busy(s)
    THEN [play_track(s, "background", 0)
            EXCEPT !.event_played = FALSE, !.event_start_time = t]
    ELSE s

\* resume_branch that only clears the event state
resume_branch_silent(s, t) ==
  IF s.event_played /\ ~get_busy(s)
    THEN [s EXCEPT !.event_played = FALSE, !.event_start_time = t]
    ELSE s

\* resume_branch that leaves the event state as it was
resume_branch_keep(s, t) ==
  IF s.event_played /\ ~get_busy(s)
    THEN play_track(s, "background", -1)
    ELSE s

resume_branch(s, t) ==
  IF s.event_played /\ ~get_busy(s)
    THEN [play_track(s, "background", -1)
            EXCEPT !.event_played = FALSE, !.event_start_time = t]
    ELSE s

\* The mixer plays the stream on its own thread: a one-shot that is playing
\* may reach its end at any moment, also between play (line 171) and
\* get_busy() (line 175) of one iteration.
stream_end(s, e) == IF e THEN [s EXCEPT !.music.busy = FALSE] ELSE s

\* a one-shot stream is playing in s, so that it can end
can_end(s) == s.music.busy /\ s.music.loops = 0

event_handling(s, v, t, e) ==
  LET s1 == on_change(s, v, t)
  IN  IF v = "noperson"
        THEN noperson_branch(s1)
        ELSE resume_branch(stream_end(oneshot_branch(s1, v, t), e), t)

NoCall == [detected |-> <<>>, encs |-> <<>>, known |-> <<>>, ret |-> None]

(* ---------------------------- overlay ---------------------------------- *)
\* Time is counted in quarter seconds, so that 0.5 s is 2 units.
BLINK_INTERVAL == 2

\* thief_blink with the two phases swapped at the boundary
thief_blink_incl(t) == (t % (2 * BLINK_INTERVAL)) <= BLINK_INTERVAL

thief_blink(t) == (t % (2 * BLINK_INTERVAL)) < BLINK_INTERVAL

COLOR == [c \in Categories |->
            CASE c = "thief"    -> <<0, 0, 255>>
              [] c = "friend"   -> <<0, 255, 0>>
              [] c = "delivery" -> <<255, 255, 0>>
              [] c = "noperson" -> <<255, 255, 255>>]

\* the frame as captured, before any putText
NoOverlay == [text |-> None, color |-> <<>>]

\* the label put on the frame (cv2.putText), None when nothing is drawn
overlay_text(v, t) ==
  IF v = "thief"
    THEN (IF thief_blink(t)
            THEN [text |-> "Visitor: thief", color |-> COLOR["thief"]]
            ELSE NoOverlay)
  ELSE IF v = "noperson"
    THEN [text |-> "No person detected", color |-> COLOR["noperson"]]
  ELSE [text |-> IF v = "friend" THEN "Visitor: friend" ELSE "Visitor: delivery",
        color |-> COLOR[v]]

\* line 181: cv2.waitKey(1) & 0xFF == 27
is_quit(k) == k % 256 = 27

(* ---------------------------- actions ---------------------------------- *)
Init ==
  /\ pc = "boot"
  /\ current_track = None
  /\ music = NoMusic
  /\ ops = <<>>
  /\ last_event = None
  /\ event_start_time = 0
  /\ event_played = FALSE
  /\ now = 0
  /\ visitor = None
  /\ known_face_encodings = <<>>
  /\ exit_code = None
  /\ ev = "init"
  /\ pre = Ctl
  /\ mid = Ctl
  /\ started = "no"
  /\ call = NoCall
  /\ cap = None
  /\ friends_dir = None
  /\ printed = None
  /\ key = None
  /\ overlay = NoOverlay
  /\ aft = Ctl
  /\ ended = FALSE

\* line 58: play_track("background", loop=-1)
StartBackground ==
  /\ pc = "boot"
  /\ LET s == play_track(Ctl, "background", -1)
     IN  /\ current_track' = s.current_track
         /\ music' = s.music
         /\ ops' = s.ops
  /\ pc' = "gallery"
  /\ ev' = "start"
  /\ UNCHANGED <<last_event, event_start_time, event_played, now, visitor,
                 known_face_encodings, exit_code, pre, mid, started, call,
                 cap, friends_dir, printed, key, overlay,
                 aft, ended>>

\* lines 64-78: the friends directory is checked and the gallery is loaded
LoadGallery ==
  /\ pc = "gallery"
  /\ \E isdir \in BOOLEAN :
       IF ~isdir
         THEN /\ pc' = "exit"
              /\ exit_code' = 1
              /\ friends_dir' = "missing"
              /\ printed' = "ERROR: friends directory not found:"
              /\ UNCHANGED known_face_encodings
         ELSE /\ pc' = "camera"
              /\ \E g \in Galleries : known_face_encodings' = g
              /\ friends_dir' = "present"
              /\ UNCHANGED <<exit_code, printed>>
  /\ ev' = "gallery"
  /\ ops' = <<>>
  /\ UNCHANGED <<current_track, music, last_event, event_start_time,
                 event_played, now, visitor, pre, mid, started, call,
                 cap, key, overlay,
                 aft, ended>>

\* OpenCamera that enters the loop whether or not the camera opened
OpenCamera_nocheck ==
  /\ pc = "camera"
  /\ \E isOpened \in BOOLEAN :
       /\ cap' = IF isOpened THEN "open" ELSE "failed"
       /\ pc' = "loop"
       /\ printed' = "Press ESC to quit."
       /\ UNCHANGED exit_code
  /\ ev' = "camera"
  /\ ops' = <<>>
  /\ UNCHANGED <<current_track, music, last_event, event_start_time,
                 event_played, now, visitor, known_face_encodings,
                 pre, mid, started, call, friends_dir, key, overlay,
                 aft, ended>>

\* lines 80-83 and 132: the camera is opened; the loop is announced
OpenCamera ==
  /\ pc = "camera"
  /\ \E isOpened \in BOOLEAN :
       IF ~isOpened
         THEN /\ cap' = "failed"
              /\ pc' = "exit"
              /\ exit_code' = 1
              /\ printed' = "ERROR: could not open webcam"
         ELSE /\ cap' = "open"
              /\ pc' = "loop"
              /\ printed' = "Press ESC to quit."
              /\ UNCHANGED exit_code
  /\ ev' = "camera"
  /\ ops' = <<>>
  /\ UNCHANGED <<current_track, music, last_event, event_start_time,
                 event_played, now, visitor, known_face_encodings,
                 pre, mid, started, call, friends_dir, key, overlay,
                 aft, ended>>

\* ReadFail that stops playback and forgets the event before leaving
ReadFail_reset ==
  /\ pc = "loop"
  /\ pc' = "cleanup"
  /\ ev' = "readfail"
  /\ ops' = << <<"stop">> >>
  /\ music' = [music EXCEPT !.busy = FALSE]
  /\ event_played' = FALSE
  /\ UNCHANGED <<current_track, last_event, event_start_time,
                 now, visitor, known_face_encodings,
                 exit_code, pre, mid, started, call,
                 cap, friends_dir, printed, key, overlay,
                 aft, ended>>

\* lines 134-136: cap.read() fails and the loop is left
ReadFail ==
  /\ pc = "loop"
  /\ pc' = "cleanup"
  /\ ev' = "readfail"
  /\ ops' = <<>>
  /\ UNCHANGED <<current_track, music, last_event, event_start_time,
                 event_played, now, visitor, known_face_encodings,
                 exit_code, pre, mid, started, call,
                 cap, friends_dir, printed, key, overlay,
                 aft, ended>>

\* lines 134-182: one iteration of the loop with a frame that was read.
\* time.time() is the wall clock: it may return less than the call before.
Tick ==
  /\ pc = "loop"
  /\ \E v \in visitors_of[known_face_encodings],
        t \in 0..MaxTime, k \in Keys, e \in BOOLEAN :
       LET a == IF v = "noperson"
                  THEN on_change(Ctl, v, t)
                  ELSE oneshot_branch(on_change(Ctl, v, t), v, t)
           s == event_handling(Ctl, v, t, e)
       IN  /\ e => (v # "noperson" /\ can_end(a))
           /\ aft' = a
           /\ ended' = e
           /\ visitor' = v
           /\ now' = t
           /\ overlay' = overlay_text(v, t)
           /\ pre' = Ctl
           /\ mid' = on_change(Ctl, v, t)
           /\ current_track' = s.current_track
           /\ music' = s.music
           /\ ops' = s.ops
           /\ last_event' = s.last_event
           /\ event_start_time' = s.event_start_time
           /\ event_played' = s.event_played
           /\ started' = LET base == IF v # last_event THEN "no" ELSE started
                          IN  IF v \in OneShots /\ Loaded(s.ops, sound_files[v])
                                THEN (IF base = "no" THEN "once" ELSE "again")
                                ELSE base
           /\ key' = k
           /\ pc' = IF is_quit(k) THEN "cleanup" ELSE "loop"
  /\ ev' = "tick"
  /\ UNCHANGED <<known_face_encodings, exit_code, call, cap, friends_dir, printed>>

\* Cleanup that releases the camera but leaves the music playing
Cleanup_nostop ==
  /\ pc = "cleanup"
  /\ cap' = "released"
  /\ ops' = <<>>
  /\ pc' = "done"
  /\ exit_code' = 0
  /\ ev' = "cleanup"
  /\ UNCHANGED <<current_track, music, last_event, event_start_time, event_played,
                 now, visitor, known_face_encodings, pre, mid, started, call,
                 friends_dir, printed, key, overlay,
                 aft, ended>>

\* lines 187-190: cleanup after the loop
Cleanup ==
  /\ pc = "cleanup"
  /\ cap' = "released"
  /\ LET s == mixer_quit(music_stop(Ctl))
     IN  music' = s.music /\ ops' = s.ops
  /\ pc' = "done"
  /\ exit_code' = 0
  /\ ev' = "cleanup"
  /\ UNCHANGED <<current_track, last_event, event_start_time, event_played,
                 now, visitor, known_face_encodings, pre, mid, started, call,
                 friends_dir, printed, key, overlay,
                 aft, ended>>

\* the audio device reaches the end of a track that was started one-shot,
\* between two iterations of the loop or after the loop was left, before
\* the stop of line 189
Finish ==
  /\ pc \in {"loop", "cleanup"}
  /\ music.busy
  /\ music.loops = 0
  /\ music' = [music EXCEPT !.busy = FALSE]
  /\ ev' = "finish"
  /\ ops' = <<>>
  /\ UNCHANGED <<pc, current_track, last_event, event_start_time,
                 event_played, now, visitor, known_face_encodings,
                 exit_code, pre, mid, started, call,
                 cap, friends_dir, printed, key, overlay,
                 aft, ended>>

Next ==
  \/ StartBackground
  \/ LoadGallery
  \/ OpenCamera
  \/ ReadFail
  \/ Tick
  \/ Cleanup
  \/ Finish

Spec == Init /\ [][Next]_vars

(* ------------- the classifier on its own: inputs drawn in Init ---------- *)
InitClassify ==
  /\ pc = "classify"
  /\ current_track = None
  /\ music = NoMusic
  /\ ops = <<>>
  /\ last_event = None
  /\ event_start_time = 0
  /\ event_played = FALSE
  /\ now = 0
  /\ visitor = None
  /\ known_face_encodings = <<>>
  /\ exit_code = None
  /\ ev = "init"
  /\ pre = Ctl
  /\ mid = Ctl
  /\ started = "no"
  /\ cap = None
  /\ friends_dir = None
  /\ printed = None
  /\ key = None
  /\ overlay = NoOverlay
  /\ aft = Ctl
  /\ ended = FALSE
  /\ call \in [detected : SeqsUpTo(Labels, MaxDet),
               encs : SeqsUpTo(Encodings, MaxFaces),
               known : Galleries,
               ret : {None}]

ClassifyCall ==
  /\ pc = "classify"
  /\ call.ret = None
  /\ call' = [call EXCEPT !.ret = classify_visitor(call.detected, call.encs, call.known)]
  /\ UNCHANGED <<pc, current_track, music, ops, last_event, event_start_time,
                 event_played, now, visitor, known_face_encodings, exit_code,
                 ev, pre, mid, started, cap, friends_dir, printed, key, overlay,
                 aft, ended>>

NextClassify == ClassifyCall

SpecClassify == InitClassify /\ [][NextClassify]_vars

(* ------------- the overlay on its own: inputs drawn in Init ------------- *)
InitBlink ==
  /\ pc = "render"
  /\ current_track = None
  /\ music = NoMusic
  /\ ops = <<>>
  /\ last_event = None
  /\ event_start_time = 0
  /\ event_played = FALSE
  /\ now \in 0..MaxBlinkTime
  /\ visitor \in Categories
  /\ known_face_encodings = <<>>
  /\ exit_code = None
  /\ ev = "init"
  /\ pre = Ctl
  /\ mid = Ctl
  /\ started = "no"
  /\ cap = None
  /\ friends_dir = None
  /\ printed = None
  /\ key = None
  /\ overlay = NoOverlay
  /\ aft = Ctl
  /\ ended = FALSE
  /\ call = NoCall

\* lines 142-152: the overlay text of one frame
Render ==
  /\ pc = "render"
  /\ overlay' = overlay_text(visitor, now)
  /\ pc' = "rendered"
  /\ ev' = "render"
  /\ UNCHANGED <<current_track, music, ops, last_event, event_start_time,
                 event_played, now, visitor, known_face_encodings, exit_code,
                 pre, mid, started, cap, friends_dir, printed, key, call,
                 aft, ended>>

NextBlink == Render

SpecBlink == InitBlink /\ [][NextBlink]_vars

(* ---------------------------- properties ------------------------------- *)
\* the mixer calls made to (re)start background in loop mode
StartBackgroundOps ==
  << <<"stop">>, <<"load", "toto_africa.mp3">>, <<"play", -1, 0>> >>

\* the mixer calls made to start the one-shot of category c
StartOneShotOps(c) ==
  << <<"stop">>, <<"load", sound_files[c]>>, <<"play", 0, 27>> >>

\* C1: on every tick whose category differs from the category of the
\* previous tick, event_played is reset to FALSE, event_start_time is set to
\* now and playback is stopped before the noperson / one-shot decision of
\* that tick is evaluated: the state the decision starts from (mid) is the
\* reset one, the stop is the first mixer call of the tick, and the decision
\* that follows acts on the reset state (with the delays 0 it starts a
\* track after the stop).
C1_CategoryChangeReset ==
  (ev = "tick" /\ visitor # pre.last_event) =>
     /\ mid.last_event = visitor
     /\ mid.event_played = FALSE
     /\ mid.event_start_time = now
     /\ mid.music.busy = FALSE
     /\ mid.ops = << <<"stop">> >>
     /\ mid.current_track = pre.current_track
     /\ Len(ops) > 1
     /\ SubSeq(ops, 1, 1) = mid.ops
     /\ last_event = visitor

C1_Witness ==
  /\ ev = "tick"
  /\ visitor # pre.last_event
  /\ pre.last_event \in OneShots
  /\ pre.event_played
  /\ pre.music.busy
  /\ pre.event_start_time < now

\* C2: at the end of every tick whose category is noperson, background is
\* the current track, it is playing, and it was started in infinite-loop
\* mode, whatever was current or stopped before the tick.
C2_BackgroundWhenNoPerson ==
  (ev = "tick" /\ visitor = "noperson") =>
     /\ current_track = "background"
     /\ music.file = "toto_africa.mp3"
     /\ music.busy
     /\ music.loops = -1
     /\ (pre.current_track # "background" \/ ~mid.music.busy) => ops = mid.ops \o StartBackgroundOps

C2_Witness ==
  /\ ev = "tick"
  /\ visitor = "noperson"
  /\ pre.current_track = "background"
  /\ pre.last_event \in OneShots
  /\ pre.music.busy
  /\ music.busy

\* C3: at most one track is playing (the file the mixer plays is the one of
\* current_track), and in the mixer calls of every step each load is
\* directly preceded by a stop and each play by that load.
C3_StopBeforeLoad ==
  /\ music.busy => (current_track \in Tracks /\ music.file = sound_files[current_track])
  /\ \A i \in DOMAIN ops :
       /\ ops[i][1] = "load" => (i > 1 /\ ops[i-1] = <<"stop">>)
       /\ ops[i][1] = "play" => (i > 1 /\ ops[i-1][1] = "load")

C3_Witness ==
  /\ ev = "tick"
  /\ pre.music.busy
  /\ pre.current_track \in OneShots
  /\ current_track \in OneShots
  /\ current_track # pre.current_track
  /\ music.busy

\* C4: the track most recently started is in infinite-loop mode if and only
\* if it is background; friend, thief and delivery are started with loop
\* count 0.
C4_LoopIffBackground ==
  /\ current_track # None =>
       /\ pc # "done" => music.file = sound_files[current_track]
       /\ (music.loops = -1) <=> (current_track = "background")
       /\ current_track \in OneShots => music.loops = 0
  /\ \A i \in DOMAIN ops :
       ops[i][1] = "play" =>
          /\ ops[i][2] \in {-1, 0}
          /\ (ops[i][2] = -1) <=> (ops[i-1] = <<"load", "toto_africa.mp3">>)

C4_Witness ==
  /\ ev = "tick"
  /\ current_track = "background"
  /\ pre.current_track \in OneShots
  /\ visitor = pre.last_event
  /\ music.busy

\* C5: on a tick whose category is unchanged and which finds the one-shot
\* that was started no longer busy (it ended before the tick or during it),
\* background is started in loop mode; on a tick whose category is
\* unchanged a one-shot is followed by nothing but itself still playing or
\* background, never by silence or another track.
C5_ResumeBackground ==
  (ev = "tick" /\ visitor = pre.last_event /\ pre.current_track \in OneShots) =>
     /\ pre.event_played
     /\ (~pre.music.busy \/ ended) =>
          /\ current_track = "background"
          /\ music.busy
          /\ music.loops = -1
          /\ ops = StartBackgroundOps
     /\ (pre.music.busy /\ ~ended) =>
          /\ current_track = pre.current_track
          /\ music = pre.music
          /\ ops = <<>>
     /\ music.busy
     /\ \A c \in OneShots : ~Loaded(ops, sound_files[c])

C5_Witness ==
  /\ ev = "tick"
  /\ visitor = pre.last_event
  /\ pre.current_track \in OneShots
  /\ pre.event_played
  /\ ~pre.music.busy
  /\ current_track = "background"

\* the one-shot ends during a tick of the same category
C5_WitnessEndedInTick ==
  /\ ev = "tick"
  /\ visitor = pre.last_event
  /\ pre.current_track \in OneShots
  /\ pre.music.busy
  /\ ended
  /\ current_track = "background"

\* C6: on a tick whose category c is friend, delivery or thief the one-shot
\* of c is started if and only if, after the category-change reset of that
\* tick, event_played is false and now - event_start_time >= delays[c];
\* starting it sets event_played (aft is the state right after the start),
\* no other one-shot is started, it is not started while
\* now - event_start_time < delays[c], and with the delays 0 it starts on
\* the tick of the category change.  event_played is still set at the end
\* of the tick unless the track ended during the tick and background was
\* resumed.
C6_OneShotStart ==
  (ev = "tick" /\ visitor \in OneShots) =>
     /\ Loaded(ops, sound_files[visitor])
          <=> (~mid.event_played /\ now - mid.event_start_time >= delays[visitor])
     /\ Loaded(ops, sound_files[visitor]) =>
          /\ aft.event_played
          /\ aft.current_track = visitor
          /\ aft.music.busy
          /\ aft.music.file = sound_files[visitor]
          /\ aft.ops = mid.ops \o StartOneShotOps(visitor)
          /\ SubSeq(ops, 1, Len(aft.ops)) = aft.ops
          /\ ~ended => (event_played /\ current_track = visitor /\ ops = aft.ops)
     /\ ~Loaded(ops, sound_files[visitor]) => aft = mid
     /\ \A c \in OneShots \ {visitor} : ~Loaded(ops, sound_files[c])
     /\ (now - mid.event_start_time < delays[visitor]) => ~Loaded(ops, sound_files[visitor])
     /\ (visitor # pre.last_event /\ delays[visitor] = 0) => Loaded(ops, sound_files[visitor])

C6_Witness ==
  /\ ev = "tick"
  /\ visitor \in OneShots
  /\ visitor # pre.last_event
  /\ Loaded(ops, sound_files[visitor])
  /\ event_played

\* the clock has stepped back: the delay has not elapsed, nothing starts
C6_WitnessTooEarly ==
  /\ ev = "tick"
  /\ visitor \in OneShots
  /\ ~mid.event_played
  /\ now - mid.event_start_time < delays[visitor]
  /\ ops = <<>>

\* a steady tick of a one-shot category that starts nothing
C6_WitnessNotStarted ==
  /\ ev = "tick"
  /\ visitor \in OneShots
  /\ mid.event_played
  /\ ~Loaded(ops, sound_files[visitor])

\* C7: for each triggering event (the category changing to friend, delivery
\* or thief) the one-shot of that category is started once while the
\* category stays the same; it is not started a second time for the event.
C7_OneShotOncePerEvent == started # "again"


\* a face found in the frame of the call matches an encoding of the gallery
FaceMatches == Range(call.encs) \cap Range(call.known) # {}

\* a label of the call is one of the delivery cues
HasCue == Range(call.detected) \cap {"handbag", "backpack", "helmet", "suit", "hat"} # {}

\* C8: for every list of detection labels without "person", classify_visitor
\* returns noperson, whatever other labels are present and whether or not
\* a face in the frame would match the gallery.
C8_NoPerson ==
  (call.ret # None /\ "person" \notin Range(call.detected)) => call.ret = "noperson"

C8_Witness ==
  /\ call.ret = "noperson"
  /\ "person" \notin Range(call.detected)
  /\ HasCue
  /\ FaceMatches

\* C9: for every list of detection labels with "person", if a face of the
\* frame matches a gallery encoding, classify_visitor returns friend, also
\* when delivery-cue labels are present.
C9_FriendPriority ==
  (call.ret # None /\ "person" \in Range(call.detected) /\ FaceMatches)
     => call.ret = "friend"

C9_Witness ==
  /\ call.ret = "friend"
  /\ "person" \in Range(call.detected)
  /\ FaceMatches
  /\ HasCue

\* C10: for every list of detection labels with "person", no face matching
\* the gallery and at least one delivery-cue label, classify_visitor
\* returns delivery.
C10_Delivery ==
  (call.ret # None /\ "person" \in Range(call.detected) /\ ~FaceMatches /\ HasCue)
     => call.ret = "delivery"

C10_Witness ==
  /\ call.ret = "delivery"
  /\ call.detected[1] = "person"
  /\ HasCue
  /\ call.encs # <<>>
  /\ call.known # <<>>
  /\ ~FaceMatches

\* C11: for every list of detection labels with "person", no face matching
\* the gallery and no delivery-cue label, classify_visitor returns thief,
\* and it returns thief in no other case.
C11_Thief ==
  call.ret # None =>
     ((call.ret = "thief")
        <=> ("person" \in Range(call.detected) /\ ~FaceMatches /\ ~HasCue))

C11_Witness ==
  /\ call.ret = "thief"
  /\ "person" \in Range(call.detected)
  /\ "dog" \in Range(call.detected)
  /\ call.encs # <<>>
  /\ call.known # <<>>

\* C12: the loop is left only by a tick that ends with the escape key (the
\* controller has run on that tick) or by a failed read; cleanup then
\* releases the capture device, stops the music and quits the mixer, so
\* that no track is playing in the terminated state, whatever the
\* controller state was.
C12_Termination ==
  [][ /\ (pc = "loop" /\ pc' # "loop") =>
           /\ pc' = "cleanup"
           /\ \/ ev' = "readfail"
              \/ ev' = "tick" /\ key' % 256 = 27 /\ last_event' = visitor'
      /\ (ev' = "tick" /\ pc' = "loop") => key' % 256 # 27
      /\ pc' = "cleanup" => (pc \in {"loop", "cleanup"} /\ cap' = "open")
      /\ pc' = "loop" => cap' = "open"
      /\ pc' = "done" =>
           /\ pc = "cleanup"
           /\ ev' = "cleanup"
           /\ cap' = "released"
           /\ ~music'.busy
           /\ music'.file = None
           /\ ops' = << <<"stop">>, <<"quit">> >>
           /\ UNCHANGED <<current_track, last_event, event_start_time,
                          event_played>> ]_vars

C12_Witness ==
  /\ pc = "done"
  /\ ev = "cleanup"
  /\ last_event \in OneShots
  /\ key = 27
  /\ current_track = "background"
  /\ music.loops = -1
  /\ ~music.busy

\* the one-shot ends after the loop was left and before the cleanup
C12_WitnessEndedBeforeCleanup ==
  /\ pc = "cleanup"
  /\ ev = "finish"
  /\ current_track \in OneShots
  /\ event_played
  /\ ~music.busy

\* C13: if the friends directory is missing or the camera cannot be opened,
\* the process exits with status 1 and an error message, and the loop never
\* runs: no tick has been processed and nothing was classified.
C13_StartupErrorsFatal ==
  /\ (friends_dir = "missing" \/ cap = "failed") =>
       /\ pc = "exit"
       /\ exit_code = 1
       /\ printed = (IF friends_dir = "missing"
                       THEN "ERROR: friends directory not found:"
                       ELSE "ERROR: could not open webcam")
       /\ ev \in {"gallery", "camera"}
       /\ visitor = None
       /\ last_event = None
       /\ key = None
       /\ overlay = NoOverlay
       /\ ~event_played
  /\ friends_dir = "missing" => cap = None
  /\ pc = "exit" => (friends_dir = "missing" \/ cap = "failed")

C13_Witness ==
  /\ pc = "exit"
  /\ cap = "failed"
  /\ friends_dir = "present"
  /\ exit_code = 1

\* the startup error of the friends directory
C13_WitnessGallery ==
  /\ pc = "exit"
  /\ friends_dir = "missing"
  /\ exit_code = 1

\* C14 (as claimed): on a tick of the same category that finds background
\* resumed after the one-shot, the one-shot is started again, the delays
\* being 0: the replay comes on the very next tick.
C14_ReplayOnNextTick ==
  (ev = "tick" /\ visitor = pre.last_event /\ visitor \in OneShots
     /\ pre.current_track = "background") =>
       Loaded(ops, sound_files[visitor])

\* C14 (amended): the tick that resumes background after a finished
\* one-shot resets event_played to FALSE and event_start_time to now; on a
\* later tick of the same category that finds background resumed, the
\* one-shot is started again exactly when
\* now - event_start_time >= delays[category], which stops background; the
\* delays being 0, that is the next tick whose now is not below
\* event_start_time (time.time() may have stepped back).
C14_ReplayAfterResume ==
  /\ (ev = "tick" /\ visitor \in OneShots /\ current_track = "background"
        /\ ops # <<>>) =>
       /\ event_played = FALSE
       /\ event_start_time = now
       /\ started = "once" \/ started = "again"
  /\ (ev = "tick" /\ visitor = pre.last_event /\ visitor \in OneShots
        /\ pre.current_track = "background") =>
       /\ pre.music.busy /\ ~pre.event_played
       /\ (now - pre.event_start_time >= delays[visitor])
             <=> Loaded(ops, sound_files[visitor])
       /\ (delays[visitor] = 0 /\ now >= pre.event_start_time)
             => Loaded(ops, sound_files[visitor])
       /\ Loaded(ops, sound_files[visitor]) =>
            /\ SubSeq(ops, 1, 3) = StartOneShotOps(visitor)
            /\ aft.event_played
            /\ aft.music.busy
            /\ started = "again"
       /\ ~Loaded(ops, sound_files[visitor]) =>
            /\ ops = <<>>
            /\ current_track = "background"
            /\ music = pre.music
            /\ event_start_time = pre.event_start_time

C14_Witness ==
  /\ ev = "tick"
  /\ visitor = pre.last_event
  /\ visitor \in OneShots
  /\ pre.current_track = "background"
  /\ pre.music.busy
  /\ current_track = visitor
  /\ started = "again"

\* the clock has stepped back after a resume: the one-shot is not replayed
C14_WitnessClockBack ==
  /\ ev = "tick"
  /\ visitor = pre.last_event
  /\ visitor \in OneShots
  /\ pre.current_track = "background"
  /\ now < pre.event_start_time
  /\ current_track = "background"

\* C15: a failed read classifies nothing and leaves last_event,
\* event_start_time, event_played, the current track and the mixer as they
\* were, starts no track, and leads to the cleanup that an operator quit
\* leads to; from there the script reads no frame again: its only step is
\* that cleanup (meanwhile the stream may end on its own).
C15_ReadFailIsEndOfStream ==
  [][ /\ ev' = "readfail" =>
           /\ pc = "loop" /\ pc' = "cleanup"
           /\ ops' = <<>>
           /\ UNCHANGED <<last_event, event_start_time, event_played,
                          current_track, music, visitor, now, overlay,
                          started, exit_code>>
      /\ pc = "cleanup" =>
           \/ /\ pc' = "done"
              /\ ev' = "cleanup"
              /\ exit_code' = 0
              /\ cap' = "released"
              /\ ~music'.busy
           \/ /\ pc' = "cleanup"
              /\ ev' = "finish"
              /\ ops' = <<>>
              /\ music' = [music EXCEPT !.busy = FALSE]
              /\ UNCHANGED <<last_event, event_start_time, event_played,
                             current_track, visitor, now, overlay, started,
                             exit_code, cap, key>> ]_vars

C15_Witness ==
  /\ ev = "readfail"
  /\ pc = "cleanup"
  /\ current_track \in OneShots
  /\ event_played
  /\ music.busy

\* C16: for a frame classified thief the label is drawn exactly in the
\* first half of every period of 2 * BLINK_INTERVAL, so it is on for
\* BLINK_INTERVAL and off for BLINK_INTERVAL in turn; for friend, delivery
\* and noperson the label is drawn whatever now is.
C16_Blink ==
  pc = "rendered" =>
     /\ visitor = "thief" =>
          /\ (overlay.text # None) <=> ((now \div BLINK_INTERVAL) % 2 = 0)
          /\ overlay.text \in {None, "Visitor: thief"}
     /\ visitor = "noperson" => overlay.text = "No person detected"
     /\ visitor = "friend" => overlay.text = "Visitor: friend"
     /\ visitor = "delivery" => overlay.text = "Visitor: delivery"

C16_Witness ==
  /\ pc = "rendered"
  /\ visitor = "thief"
  /\ now = 3 * BLINK_INTERVAL
  /\ overlay.text = None

\* the label of a thief in an ON phase after the first period
C16_WitnessOn ==
  /\ pc = "rendered"
  /\ visitor = "thief"
  /\ now = 2 * BLINK_INTERVAL
  /\ overlay.text = "Visitor: thief"

\* C17: event_played implies that last_event is friend, delivery or thief
\* and that the current track is the one-shot of last_event; event_played
\* is false at the end of every noperson tick and whenever the current
\* track is background.
C17_PlayedMeansOneShotCurrent ==
  /\ event_played =>
       /\ last_event \in OneShots
       /\ current_track = last_event
       /\ pc # "done" => music.file = sound_files[last_event]
  /\ (ev = "tick" /\ visitor = "noperson") => ~event_played
  /\ current_track = "background" => ~event_played

C17_Witness ==
  /\ ev = "tick"
  /\ visitor = "noperson"
  /\ pre.event_played
  /\ pre.current_track \in OneShots
  /\ ~event_played

\* C18: a tick whose category equals last_event and which finds the mixer
\* busy (the stream does not end before get_busy() is asked), with noperson
\* and background current or with a person category and event_played set,
\* changes neither last_event, event_start_time, event_played, the current
\* track nor the mixer, and makes no mixer call.
C18_SteadyTick ==
  (/\ ev = "tick"
   /\ visitor = pre.last_event
   /\ pre.music.busy
   /\ ~ended
   /\ \/ visitor = "noperson" /\ pre.current_track = "background"
      \/ visitor \in OneShots /\ pre.event_played) =>
     /\ last_event = pre.last_event
     /\ event_start_time = pre.event_start_time
     /\ event_played = pre.event_played
     /\ current_track = pre.current_track
     /\ music = pre.music
     /\ ops = <<>>

C18_Witness ==
  /\ ev = "tick"
  /\ visitor = "noperson"
  /\ pre.last_event = "noperson"
  /\ pre.current_track = "background"
  /\ pre.music.busy
  /\ now > event_start_time

\* a steady tick while a one-shot is playing
C18_WitnessOneShot ==
  /\ ev = "tick"
  /\ visitor \in OneShots
  /\ visitor = pre.last_event
  /\ pre.event_played
  /\ pre.music.busy
  /\ now > event_start_time

\* C19 (as claimed): at the end of every tick the mixer is busy: with
\* background when the category is noperson, and otherwise with the
\* one-shot of the category or with background resumed on that tick.
C19_BusyWithOneShotOrResumed ==
  ev = "tick" =>
     /\ music.busy
     /\ visitor = "noperson" => current_track = "background"
     /\ visitor \in OneShots =>
          \/ current_track = visitor /\ event_played
          \/ /\ current_track = "background"
             /\ Len(ops) >= 3
             /\ SubSeq(ops, Len(ops) - 2, Len(ops)) = StartBackgroundOps

\* C19 (amended): at the end of every tick the mixer is busy: with
\* background when the category is noperson, and otherwise with the
\* one-shot of the category, with background resumed on that tick, or with
\* background resumed on an earlier tick of the same category and left
\* playing because now is below event_start_time.
C19_NeverIdle ==
  ev = "tick" =>
     /\ music.busy
     /\ current_track \in Tracks
     /\ music.file = sound_files[current_track]
     /\ visitor = "noperson" => current_track = "background"
     /\ visitor \in OneShots =>
          \/ current_track = visitor /\ event_played
          \/ /\ current_track = "background"
             /\ Len(ops) >= 3
             /\ SubSeq(ops, Len(ops) - 2, Len(ops)) = StartBackgroundOps
             /\ aft.current_track = visitor
          \/ /\ current_track = "background"
             /\ ops = <<>>
             /\ visitor = pre.last_event
             /\ pre.current_track = "background"
             /\ music = pre.music
             /\ now < event_start_time

C19_Witness ==
  /\ ev = "tick"
  /\ visitor \in OneShots
  /\ visitor # pre.last_event
  /\ pre.last_event \in OneShots
  /\ ~pre.music.busy
  /\ music.busy
  /\ current_track = visitor

TypeOK ==
  /\ pc \in {"boot", "gallery", "camera", "loop", "cleanup", "done", "exit",
            "classify", "render", "rendered"}
  /\ current_track \in Tracks \cup {None}
  /\ last_event \in Categories \cup {None}
  /\ event_played \in BOOLEAN
  /\ now \in 0..MaxTime
  /\ event_start_time \in 0..MaxTime
====
